---- MODULE Spec2Model ----
(***************************************************************************)
(* Model of the root-confined filesystem tool server (mcpserver/server/     *)
(* fs_server.py): the path resolver _resolve_safe, the ten filesystem      *)
(* operations built on it, and the dispatching part of nl_command.         *)
(*                                                                         *)
(* A canonical path is the sequence of its components, <<>> being "/".     *)
(* A name is a string; Chars gives its characters, so that the resolver's  *)
(* test str(target).startswith(str(base)) is computed on characters, as    *)
(* the code computes it.  A file's content is a sequence of characters.    *)
(* The filesystem is a function from the canonical paths that exist to     *)
(* their nodes (file, directory, symbolic link).                           *)
(***************************************************************************)
EXTENDS Integers, Sequences, FiniteSets, TLC

VARIABLES
    fs,      \* the filesystem: existing canonical path -> node
    pc,      \* "idle": waiting for a request; "responded": a result is being returned
    last,    \* the request just handled: operation, arguments, result, filesystem before
    prev,    \* the request answered before this one, where a specification keeps it
    steps,   \* number of requests handled so far
    app,     \* the chat front end: connected, llm_handler set
    inflight \* the write_file calls running side by side, each with its position

vars == <<fs, pc, last, prev, steps, app, inflight>>

\* ---------------------------------------------------------------- bounds
\* Requests handled in one behaviour of Spec.
MaxSteps == 1
\* write_file calls made in one behaviour of SpecWrite.
MaxWrites == 2
\* Read-type calls made in one behaviour of SpecRead.
MaxReads == 2

\* ---------------------------------------------------------------- paths as text
\* The characters of a name ("r2" is the only name of two characters).
Chars(n) == IF n = "r2" THEN <<"r", "2">> ELSE <<n>>

RECURSIVE PathStr(_)
\* str(Path): "/" for the filesystem root, else "/" + name for every component.
PathStr(p) ==
    IF p = <<>> THEN <<"/">>
    ELSE IF Len(p) = 1 THEN <<"/">> \o Chars(p[1])
    ELSE PathStr(SubSeq(p, 1, Len(p) - 1)) \o <<"/">> \o Chars(p[Len(p)])

\* str.startswith
StartsWith(s, prefix) ==
    /\ Len(prefix) <= Len(s)
    /\ SubSeq(s, 1, Len(prefix)) = prefix

\* Path.parent ("/" is its own parent)
Parent(p) == IF p = <<>> THEN <<>> ELSE SubSeq(p, 1, Len(p) - 1)

\* Path.name
BaseName(p) == IF p = <<>> THEN "" ELSE p[Len(p)]

\* q is p or lies below p, component by component.
IsPrefix(p, q) == Len(p) <= Len(q) /\ SubSeq(q, 1, Len(p)) = p
Below(p, q) == IsPrefix(p, q) /\ q # p

\* ---------------------------------------------------------------- nodes
DirNode == [kind |-> "dir", content |-> <<>>, target |-> <<>>]
FileNode(c) == [kind |-> "file", content |-> c, target |-> <<>>]
LinkNode(t) == [kind |-> "link", content |-> <<>>, target |-> t]

\* FS_ROOT: the configured root, already canonical.
Root == <<"r">>

\* A user-supplied path: absolute or relative, and its segments between "/".
UP(abs, segs) == [abs |-> abs, segs |-> segs]

RECURSIVE Walk(_, _, _)
\* os.path.realpath (non-strict), as Path.resolve() uses it: "." is dropped,
\* ".." goes to the parent of what has been resolved so far, a symbolic link
\* met on the way is replaced by its (absolute) target, and components that
\* do not exist are kept as written.
Walk(f, cur, segs) ==
    IF segs = <<>> THEN cur
    ELSE LET s == Head(segs)
             rest == Tail(segs)
             np == Append(cur, s)
         IN  IF s = "." THEN Walk(f, cur, rest)
             ELSE IF s = ".." THEN Walk(f, Parent(cur), rest)
             ELSE IF np \in DOMAIN f /\ f[np].kind = "link"
                  THEN Walk(f, <<>>, f[np].target \o rest)
                  ELSE Walk(f, np, rest)

\* The canonical form of an absolute path whose components may be links.
RealPath(f, p) == Walk(f, <<>>, p)

\* (base / path).resolve() for a relative path, Path(path).resolve() for an absolute one.
ResolveTarget(f, up) ==
    IF up.abs THEN Walk(f, <<>>, up.segs) ELSE Walk(f, <<>>, Root \o up.segs)

\* The confinement test of _resolve_safe: not str(target).startswith(str(base)).
Escapes(target) == ~StartsWith(PathStr(target), PathStr(Root))

\* _resolve_safe: the canonical target, or the path-escape error (ValueError).
_resolve_safe(f, up) ==
    LET target == ResolveTarget(f, up)
    IN  IF Escapes(target)
        THEN [ok |-> FALSE, path |-> target]
        ELSE [ok |-> TRUE, path |-> target]

\* What confinement means: the target is Root or a descendant of Root.
InsideRoot(p) == IsPrefix(Root, p)

\* ---------------------------------------------------------------- filesystem queries
\* Path.exists(), is_dir(), is_file(): all follow symbolic links.
Exists(f, p) == RealPath(f, p) \in DOMAIN f
IsDir(f, p) == Exists(f, p) /\ f[RealPath(f, p)].kind = "dir"
IsFile(f, p) == Exists(f, p) /\ f[RealPath(f, p)].kind = "file"
\* os.path.islink / lstat: the entry itself.
IsLink(f, p) == p \in DOMAIN f /\ f[p].kind = "link"

\* The immediate children of a directory (Path.iterdir).
Children(f, p) == {q \in DOMAIN f : Len(q) = Len(p) + 1 /\ IsPrefix(p, q)}

\* p with everything below it.
Subtree(f, p) == {q \in DOMAIN f : IsPrefix(p, q)}

\* The filesystem without the entries in S.
Without(f, S) == [q \in DOMAIN f \ S |-> f[q]]

\* The subtree at p as a function of the path relative to p.
TreeAt(f, p) ==
    [rel \in {SubSeq(q, Len(p) + 1, Len(q)) : q \in Subtree(f, p)} |-> f[p \o rel]]

\* ---------------------------------------------------------------- text
\* len(c.encode("utf-8")) for one character.
Utf8Len(c) == IF c = "é" THEN 2 ELSE 1

RECURSIVE EncodedLen(_)
\* len(content.encode(encoding)), encoding utf-8
EncodedLen(content) ==
    IF content = <<>> THEN 0 ELSE Utf8Len(Head(content)) + EncodedLen(Tail(content))

\* str.lower() on one character
LowerChar(c) ==
    CASE c = "A" -> "a" [] c = "B" -> "b" [] c = "X" -> "x" [] c = "Z" -> "z"
      [] OTHER -> c

\* Variant: the string as it is.
LowerKeep(s) == s

\* str.lower()
Lower(s) == [i \in 1..Len(s) |-> LowerChar(s[i])]

\* needle in hay
Contains(hay, needle) ==
    \E i \in 0..(Len(hay) - Len(needle)) : SubSeq(hay, i + 1, i + Len(needle)) = needle

\* ord() of the characters that occur in names
CharCode(c) ==
    CASE c = "2" -> 50 [] c = "A" -> 65 [] c = "B" -> 66 [] c = "X" -> 88 [] c = "Z" -> 90
      [] c = "a" -> 97 [] c = "b" -> 98 [] c = "c" -> 99 [] c = "d" -> 100
      [] c = "e" -> 101 [] c = "f" -> 102 [] c = "g" -> 103 [] c = "h" -> 104
      [] c = "i" -> 105 [] c = "j" -> 106 [] c = "k" -> 107 [] c = "l" -> 108
      [] c = "m" -> 109 [] c = "n" -> 110 [] c = "o" -> 111 [] c = "p" -> 112
      [] c = "r" -> 114 [] c = "x" -> 120 [] c = "z" -> 122 [] OTHER -> 0

RECURSIVE SeqLess(_, _)
\* s < t for two strings, character by character
SeqLess(s, t) ==
    IF t = <<>> THEN FALSE
    ELSE IF s = <<>> THEN TRUE
    ELSE IF CharCode(Head(s)) # CharCode(Head(t)) THEN CharCode(Head(s)) < CharCode(Head(t))
    ELSE SeqLess(Tail(s), Tail(t))

\* The order sorted() puts two children of one directory in.
PathLess(p, q) == SeqLess(Chars(BaseName(p)), Chars(BaseName(q)))

RECURSIVE Sorted(_)
\* sorted(S) for a set of children of one directory
Sorted(S) ==
    IF S = {} THEN <<>>
    ELSE LET m == CHOOSE x \in S : \A y \in S \ {x} : PathLess(x, y)
         IN  <<m>> \o Sorted(S \ {m})

\* ---------------------------------------------------------------- results
\* The shape every operation's outcome is recorded in: ok or the error class
\* raised; verb, path, path2: the confirmation string's parts; text: content
\* returned; entries: list of Entry; paths: list of paths; chars, bytes: the
\* counts write_file reports; reads: the canonical locations of the objects
\* whose content or metadata is in the result.
NoRes ==
    [ok |-> TRUE, err |-> "", verb |-> "", path |-> <<>>, path2 |-> <<>>,
     text |-> <<>>, entries |-> <<>>, paths |-> {}, chars |-> 0, bytes |-> 0,
     reads |-> {}]

\* raise err(... path ...)
Fail(err, p) == [NoRes EXCEPT !.ok = FALSE, !.err = err, !.path = p]

\* return f"<verb> ... {p}"
Msg(verb, p) == [NoRes EXCEPT !.verb = verb, !.path = p]

\* An operation's outcome: the filesystem it leaves and its result.
Out(f, r) == [fs |-> f, res |-> r]

\* ---------------------------------------------------------------- Path.mkdir
\* p and all its ancestors, "/" included
Ancestors(p) == {SubSeq(p, 1, k) : k \in 0..Len(p)}

\* The deepest ancestor of p (or p) that exists.
Nearest(f, p) ==
    CHOOSE a \in Ancestors(p) \cap DOMAIN f :
        \A b \in Ancestors(p) \cap DOMAIN f : Len(b) <= Len(a)

\* Variant: Path.mkdir(exist_ok=exist_ok), the parent has to exist.
MkdirsNoParents(f, p, exist_ok) ==
    IF p \in DOMAIN f
    THEN IF exist_ok /\ IsDir(f, p)
         THEN [ok |-> TRUE, err |-> "", fs |-> f]
         ELSE [ok |-> FALSE, err |-> "FileExistsError", fs |-> f]
    ELSE IF Parent(p) \notin DOMAIN f
         THEN [ok |-> FALSE, err |-> "FileNotFoundError", fs |-> f]
         ELSE IF f[Parent(p)].kind # "dir"
         THEN [ok |-> FALSE, err |-> "NotADirectoryError", fs |-> f]
         ELSE [ok |-> TRUE, err |-> "", fs |-> (p :> DirNode) @@ f]

\* Path.mkdir(parents=True, exist_ok=exist_ok): an existing directory is
\* accepted when exist_ok; an existing non-directory raises FileExistsError;
\* a non-directory on the way raises NotADirectoryError; otherwise every
\* missing ancestor and p are created.
Mkdirs(f, p, exist_ok) ==
    IF p \in DOMAIN f
    THEN IF exist_ok /\ IsDir(f, p)
         THEN [ok |-> TRUE, err |-> "", fs |-> f]
         ELSE [ok |-> FALSE, err |-> "FileExistsError", fs |-> f]
    ELSE LET a == Nearest(f, p)
             new == {b \in Ancestors(p) : Len(b) > Len(a)}
         IN  IF f[a].kind # "dir"
             THEN [ok |-> FALSE, err |-> "NotADirectoryError", fs |-> f]
             ELSE [ok |-> TRUE, err |-> "", fs |-> [b \in new |-> DirNode] @@ f]

\* ---------------------------------------------------------------- read-type operations
\* stat().st_size of the node a path leads to (a directory's size is the
\* filesystem's block size)
StSize(node) == IF node.kind = "dir" THEN 4096 ELSE EncodedLen(node.content)

\* _format_entry: stat() and is_dir() follow a symbolic link; size is None
\* (here -1) when stat fails.  from is where the metadata was read.
_format_entry(f, p) ==
    LET q == RealPath(f, p)
    IN  IF q \in DOMAIN f
        THEN [path |-> p, name |-> BaseName(p), is_dir |-> f[q].kind = "dir",
              size |-> StSize(f[q]), from |-> q]
        ELSE [path |-> p, name |-> BaseName(p), is_dir |-> FALSE, size |-> -1,
              from |-> p]

list_directory(f, up) ==
    LET r == _resolve_safe(f, up)
        directory == r.path
        kids == Sorted(Children(f, directory))
        entries == [i \in 1..Len(kids) |-> _format_entry(f, kids[i])]
    IN  IF ~r.ok THEN Out(f, Fail("ValueError", directory))
        ELSE IF ~Exists(f, directory) \/ ~IsDir(f, directory)
        THEN Out(f, Fail("FileNotFoundError", directory))
        ELSE Out(f, [NoRes EXCEPT !.entries = entries,
                                  !.reads = {entries[i].from : i \in 1..Len(entries)}])

\* Variant: the file is opened for appending and reading, which creates a
\* missing file in an existing directory.
ReadFileCreating(f, up) ==
    LET r == _resolve_safe(f, up)
        file_path == r.path
    IN  IF ~r.ok THEN Out(f, Fail("ValueError", file_path))
        ELSE IF ~Exists(f, file_path) /\ Exists(f, Parent(file_path))
                /\ IsDir(f, Parent(file_path))
        THEN Out((file_path :> FileNode(<<>>)) @@ f,
                 [NoRes EXCEPT !.text = <<>>, !.reads = {file_path}])
        ELSE IF ~Exists(f, file_path) \/ ~IsFile(f, file_path)
        THEN Out(f, Fail("FileNotFoundError", file_path))
        ELSE Out(f, [NoRes EXCEPT !.text = f[file_path].content, !.reads = {file_path}])

read_file(f, up) ==
    LET r == _resolve_safe(f, up)
        file_path == r.path
    IN  IF ~r.ok THEN Out(f, Fail("ValueError", file_path))
        ELSE IF ~Exists(f, file_path) \/ ~IsFile(f, file_path)
        THEN Out(f, Fail("FileNotFoundError", file_path))
        ELSE Out(f, [NoRes EXCEPT !.text = f[file_path].content, !.reads = {file_path}])

\* root.rglob("*"): everything below root; a symbolic link is yielded but
\* never descended into.
RGlob(f, root) == Subtree(f, root) \ {root}

search_files(f, up, name_contains) ==
    LET r == _resolve_safe(f, up)
        root == r.path
        needle == Lower(name_contains)
        results == {p \in RGlob(f, root) :
                       IsFile(f, p) /\ Contains(Lower(Chars(BaseName(p))), needle)}
    IN  IF ~r.ok THEN Out(f, Fail("ValueError", root))
        ELSE IF ~Exists(f, root) \/ ~IsDir(f, root)
        THEN Out(f, Fail("FileNotFoundError", root))
        ELSE Out(f, [NoRes EXCEPT !.paths = results,
                                  !.reads = {RealPath(f, p) : p \in results}])

search_in_files(f, up, text) ==
    LET r == _resolve_safe(f, up)
        root == r.path
        out == {p \in RGlob(f, root) :
                   IsFile(f, p) /\ Contains(f[RealPath(f, p)].content, text)}
    IN  IF ~r.ok THEN Out(f, Fail("ValueError", root))
        ELSE IF ~Exists(f, root) \/ ~IsDir(f, root)
        THEN Out(f, Fail("FileNotFoundError", root))
        ELSE IF text = <<>> THEN Out(f, NoRes)
        ELSE Out(f, [NoRes EXCEPT !.paths = out,
                                  !.reads = {RealPath(f, p) : p \in out}])

get_file_info(f, up) ==
    LET r == _resolve_safe(f, up)
        p == r.path
        info == _format_entry(f, p)
    IN  IF ~r.ok THEN Out(f, Fail("ValueError", p))
        ELSE IF ~Exists(f, p) THEN Out(f, Fail("FileNotFoundError", p))
        ELSE Out(f, [NoRes EXCEPT !.entries = <<info>>, !.reads = {info.from}])

\* ---------------------------------------------------------------- write_file
\* Variant: the file is always opened for (over)writing.
WriteModeTruncate(f, file_path) == "w"

\* mode = "a" if file_path.exists() else "w"
WriteMode(f, file_path) == IF Exists(f, file_path) THEN "a" ELSE "w"

\* What open(mode).write(content) leaves in the file.
Written(f, file_path, mode, content) ==
    IF mode = "a" THEN f[file_path].content \o content ELSE content

write_file(f, up, content) ==
    LET r == _resolve_safe(f, up)
        file_path == r.path
        m == Mkdirs(f, Parent(file_path), TRUE)
        f1 == m.fs
        mode == WriteMode(f1, file_path)
        char_count == Len(content)
        byte_count == EncodedLen(content)
        action == IF mode = "a" THEN "Appended" ELSE "Created"
    IN  IF ~r.ok THEN Out(f, Fail("ValueError", file_path))
        ELSE IF ~m.ok THEN Out(f, Fail(m.err, Parent(file_path)))
        ELSE IF Exists(f1, file_path) /\ ~IsFile(f1, file_path)
        THEN Out(f1, Fail("FileExistsError", file_path))
        ELSE Out((file_path :> FileNode(Written(f1, file_path, mode, content))) @@ f1,
                 [NoRes EXCEPT !.verb = action, !.path = file_path,
                               !.chars = char_count, !.bytes = byte_count])

\* ---------------------------------------------------------------- create_directory
create_directory(f, up, exist_ok) ==
    LET r == _resolve_safe(f, up)
        p == r.path
        m == Mkdirs(f, p, exist_ok)
    IN  IF ~r.ok THEN Out(f, Fail("ValueError", p))
        ELSE IF ~m.ok THEN Out(f, Fail(m.err, p))
        ELSE Out(m.fs, Msg("Created directory", p))

\* ---------------------------------------------------------------- delete_file
\* Variant: a missing path is an error.
DeleteMissingRaises(f, p) == Out(f, Fail("FileNotFoundError", p))

\* What delete_file answers for a path that does not exist.
DeleteMissing(f, p) == Out(f, Msg("Already gone", p))

\* Variant: only the directory entry goes.
RmtreeShallow(f, p) == Without(f, {p})

\* shutil.rmtree(p): p and everything below it (a link below it is removed,
\* never followed).
Rmtree(f, p) == Without(f, Subtree(f, p))

delete_file(f, up, recursive) ==
    LET r == _resolve_safe(f, up)
        p == r.path
    IN  IF ~r.ok THEN Out(f, Fail("ValueError", p))
        ELSE IF ~Exists(f, p) THEN DeleteMissing(f, p)
        ELSE IF IsDir(f, p)
        THEN IF recursive
             THEN Out(Rmtree(f, p), Msg("Removed directory tree", p))
             ELSE IF Children(f, p) # {}
                  THEN Out(f, Fail("OSError", p))
                  ELSE Out(Without(f, {p}), Msg("Removed directory", p))
        ELSE Out(Without(f, {p}), Msg("Removed file", p))

\* ---------------------------------------------------------------- copy_file
\* Variant: the destination is never looked at.
DestinationNeverBlocked(f, d, overwrite) == FALSE

\* if d.exists() and not overwrite: raise FileExistsError (copy_file, move_file)
DestinationBlocked(f, d, overwrite) == Exists(f, d) /\ ~overwrite

\* shutil.copy2's destination: inside dst when dst is a directory.
CopyDest(f, s, d) == IF IsDir(f, d) THEN Append(d, BaseName(s)) ELSE d

\* shutil.copy2(s, d): SameFileError when source and destination are one
\* file, IsADirectoryError when the destination inside a directory is itself
\* a directory; the destination is opened for writing through a symbolic link.
Copy2(f, s, d) ==
    LET dst == CopyDest(f, s, d)
        real == RealPath(f, dst)
    IN  IF Exists(f, dst) /\ real = RealPath(f, s)
        THEN [ok |-> FALSE, err |-> "SameFileError", fs |-> f]
        ELSE IF IsDir(f, dst)
        THEN [ok |-> FALSE, err |-> "IsADirectoryError", fs |-> f]
        ELSE [ok |-> TRUE, err |-> "", fs |-> (real :> FileNode(f[s].content)) @@ f]

copy_file(f, src, dst, overwrite) ==
    LET rs == _resolve_safe(f, src)
        rd == _resolve_safe(f, dst)
        s == rs.path
        d == rd.path
        m == Mkdirs(f, Parent(d), TRUE)
        f1 == m.fs
        c == Copy2(f1, s, d)
    IN  IF ~rs.ok THEN Out(f, Fail("ValueError", s))
        ELSE IF ~rd.ok THEN Out(f, Fail("ValueError", d))
        ELSE IF ~Exists(f, s) \/ ~IsFile(f, s) THEN Out(f, Fail("FileNotFoundError", s))
        ELSE IF ~m.ok THEN Out(f, Fail(m.err, Parent(d)))
        ELSE IF DestinationBlocked(f1, d, overwrite) THEN Out(f1, Fail("FileExistsError", d))
        ELSE IF ~c.ok THEN Out(f1, Fail(c.err, d))
        ELSE Out(c.fs, [NoRes EXCEPT !.verb = "Copied", !.path = s, !.path2 = d])

\* ---------------------------------------------------------------- move_file
\* shutil.move's real_dst: inside dst when dst is a directory.
MoveDest(f, s, d) == IF IsDir(f, d) THEN Append(d, BaseName(s)) ELSE d

\* The filesystem after the subtree at s has been renamed to t.
Renamed(f, s, t) ==
    LET moved == Subtree(f, s)
        kept == Without(f, moved \cup Subtree(f, t))
    IN  [q \in {t \o SubSeq(x, Len(s) + 1, Len(x)) : x \in moved} |->
            f[s \o SubSeq(q, Len(t) + 1, Len(q))]] @@ kept

\* os.rename(s, t) on one filesystem: nothing to do when both are the same
\* entry; a directory cannot go below itself (EINVAL), onto a non-directory
\* (ENOTDIR) or onto a non-empty directory (ENOTEMPTY); a file cannot go onto
\* a directory (EISDIR); otherwise t is replaced.
Rename(f, s, t) ==
    IF s = t THEN [ok |-> TRUE, fs |-> f]
    ELSE IF f[s].kind = "dir"
    THEN IF IsPrefix(s, t) THEN [ok |-> FALSE, fs |-> f]
         ELSE IF t \in DOMAIN f /\ (f[t].kind # "dir" \/ Children(f, t) # {})
         THEN [ok |-> FALSE, fs |-> f]
         ELSE [ok |-> TRUE, fs |-> Renamed(f, s, t)]
    ELSE IF t \in DOMAIN f /\ f[t].kind = "dir" THEN [ok |-> FALSE, fs |-> f]
         ELSE [ok |-> TRUE, fs |-> Renamed(f, s, t)]

\* shutil.move(s, d).  A directory destination that is the source itself is
\* renamed onto itself; otherwise the source goes inside a directory
\* destination, which must not already hold its name.  When os.rename fails,
\* a directory source raises Error for a destination inside itself and else
\* is copied with copytree, which raises FileExistsError on the existing
\* destination; a file source is copied with copy2.
ShutilMove(f, s, d) ==
    LET real_dst == MoveDest(f, s, d)
        rn == Rename(f, s, real_dst)
    IN  IF IsDir(f, d) /\ RealPath(f, s) = RealPath(f, d)
        THEN [ok |-> TRUE, err |-> "", fs |-> f]
        ELSE IF IsDir(f, d) /\ Exists(f, real_dst)
        THEN [ok |-> FALSE, err |-> "Error", fs |-> f]
        ELSE IF rn.ok THEN [ok |-> TRUE, err |-> "", fs |-> rn.fs]
        ELSE IF IsDir(f, s)
        THEN IF IsPrefix(s, d)
             THEN [ok |-> FALSE, err |-> "Error", fs |-> f]
             ELSE [ok |-> FALSE, err |-> "FileExistsError", fs |-> f]
        ELSE [ok |-> FALSE, err |-> "IsADirectoryError", fs |-> f]

move_file(f, src, dst, overwrite) ==
    LET rs == _resolve_safe(f, src)
        rd == _resolve_safe(f, dst)
        s == rs.path
        d == rd.path
        m == Mkdirs(f, Parent(d), TRUE)
        f1 == m.fs
        mv == ShutilMove(f1, s, d)
    IN  IF ~rs.ok THEN Out(f, Fail("ValueError", s))
        ELSE IF ~rd.ok THEN Out(f, Fail("ValueError", d))
        ELSE IF ~Exists(f, s) THEN Out(f, Fail("FileNotFoundError", s))
        ELSE IF ~m.ok THEN Out(f, Fail(m.err, Parent(d)))
        ELSE IF DestinationBlocked(f1, d, overwrite) THEN Out(f1, Fail("FileExistsError", d))
        ELSE IF ~mv.ok THEN Out(f1, Fail(mv.err, d))
        ELSE Out(mv.fs, [NoRes EXCEPT !.verb = "Moved", !.path = s, !.path2 = d])

\* ---------------------------------------------------------------- nl_command: dispatch
\* The values an argument of an action descriptor can have: a string (read
\* as a path or as text, whichever the parameter is), a boolean, a number.
StrPath(up) == [ty |-> "str", up |-> up, text |-> <<>>, b |-> TRUE]
StrText(t) == [ty |-> "str", up |-> UP(FALSE, <<>>), text |-> t, b |-> t # <<>>]
BoolVal(b) == [ty |-> "bool", up |-> UP(FALSE, <<>>), text |-> <<>>, b |-> b]
IntVal == [ty |-> "int", up |-> UP(FALSE, <<>>), text |-> <<>>, b |-> TRUE]

\* "args" of a descriptor: a mapping (dict) from parameter names to values,
\* a falsy value (absent, null, {}), or a truthy non-mapping (a list).
Mapping(m) == [kind |-> "mapping", map |-> m]
FalsyArgs == [kind |-> "falsy", map |-> <<>>]
ListArgs == [kind |-> "other", map |-> <<>>]

\* The ten operations nl_command dispatches to.
ActionNames ==
    {"list_directory", "read_file", "write_file", "create_directory", "delete_file",
     "copy_file", "move_file", "search_files", "search_in_files", "get_file_info"}

\* The parameters without a default in each operation's signature.
Required(action) ==
    CASE action \in {"read_file", "get_file_info", "create_directory", "delete_file"} -> {"path"}
      [] action = "write_file" -> {"path", "content"}
      [] action \in {"copy_file", "move_file"} -> {"src", "dst"}
      [] OTHER -> {}

\* All parameters of each operation's signature.
Params(action) ==
    CASE action = "list_directory" -> {"path"}
      [] action = "read_file" -> {"path", "encoding"}
      [] action = "write_file" -> {"path", "content", "encoding"}
      [] action = "create_directory" -> {"path", "exist_ok"}
      [] action = "delete_file" -> {"path", "recursive"}
      [] action \in {"copy_file", "move_file"} -> {"src", "dst", "overwrite"}
      [] action = "search_files" -> {"path", "name_contains"}
      [] action = "search_in_files" -> {"path", "text", "encoding"}
      [] action = "get_file_info" -> {"path"}
      [] OTHER -> {}

\* Variant: parameter names the operation does not have are dropped.
BindFailsOnMissingOnly(action, args) ==
    \/ args.kind = "other"
    \/ ~(Required(action) \subseteq DOMAIN args.map)

\* op(**args) cannot bind: args is no mapping, names a parameter the
\* operation does not have, or lacks a required one (TypeError).
BindFails(action, args) ==
    \/ args.kind = "other"
    \/ ~(DOMAIN args.map \subseteq Params(action))
    \/ ~(Required(action) \subseteq DOMAIN args.map)

\* ar.get(k, default)
Get(m, k, default) == IF k \in DOMAIN m THEN m[k] ELSE default

\* The path parameters of an operation.
PathParams(action) ==
    IF action \in {"copy_file", "move_file"} THEN {"src", "dst"} ELSE {"path"}

\* A flag argument or its default, by truth value.
FlagOr(m, k, default) == Get(m, k, BoolVal(default)).b

\* A text argument, "" when absent.
TextOf(m, k) == Get(m, k, StrText(<<>>)).text

\* The path argument, "." when absent.
PathOf(m) == Get(m, "path", StrPath(UP(FALSE, <<>>))).up

\* The call of the operation with the bound arguments.  _resolve_safe raises
\* TypeError for a path that is no string, before anything else is done.
Invoke(f, action, m) ==
    IF \E k \in PathParams(action) \cap DOMAIN m : m[k].ty # "str"
    THEN Out(f, Fail("TypeError", <<>>))
    ELSE CASE action = "list_directory" -> list_directory(f, PathOf(m))
           [] action = "read_file" -> read_file(f, PathOf(m))
           [] action = "write_file" -> write_file(f, PathOf(m), TextOf(m, "content"))
           [] action = "create_directory" ->
                  create_directory(f, PathOf(m), FlagOr(m, "exist_ok", TRUE))
           [] action = "delete_file" -> delete_file(f, PathOf(m), FlagOr(m, "recursive", FALSE))
           [] action = "copy_file" ->
                  copy_file(f, m["src"].up, m["dst"].up, FlagOr(m, "overwrite", TRUE))
           [] action = "move_file" ->
                  move_file(f, m["src"].up, m["dst"].up, FlagOr(m, "overwrite", TRUE))
           [] action = "search_files" -> search_files(f, PathOf(m), TextOf(m, "name_contains"))
           [] action = "search_in_files" -> search_in_files(f, PathOf(m), TextOf(m, "text"))
           [] action = "get_file_info" -> get_file_info(f, PathOf(m))

\* Names shown by a summary, and characters of a file shown by it.
SummaryMax == 10
PreviewLen == 200

\* Variant: the whole list.
TakeAll(s, n) == s

\* s[:n]
Take(s, n) == SubSeq(s, 1, IF Len(s) < n THEN Len(s) ELSE n)

\* What nl_command returns: kind is how the string starts; raised says that
\* no string was returned because an exception left nl_command.
NoSummary ==
    [raised |-> FALSE, kind |-> "", echo |-> StrText(<<>>), count |-> 0, names |-> <<>>,
     shown |-> {}, more |-> 0, text |-> <<>>, ellipsis |-> FALSE, body |-> NoRes]

\* summarize(a, ar, r): one sentence per kind of result.
summarize(a, ar, r) ==
    CASE a = "list_directory" ->
             [NoSummary EXCEPT !.kind = "Found items in",
                  !.echo = Get(ar, "path", StrPath(UP(FALSE, <<>>))),
                  !.count = Len(r.entries),
                  !.names = [i \in 1..Len(Take(r.entries, SummaryMax)) |-> r.entries[i].name],
                  !.more = IF Len(r.entries) <= SummaryMax THEN 0
                           ELSE Len(r.entries) - SummaryMax]
      [] a \in {"search_files", "search_in_files"} ->
             [NoSummary EXCEPT !.kind = IF a = "search_files" THEN "Found files matching"
                                        ELSE "Found text in files",
                  !.echo = Get(ar, IF a = "search_files" THEN "name_contains" ELSE "text",
                               StrText(<<>>)),
                  !.count = Cardinality(r.paths),
                  !.shown = IF Cardinality(r.paths) <= SummaryMax THEN r.paths
                            ELSE CHOOSE S \in SUBSET r.paths : Cardinality(S) = SummaryMax,
                  !.more = IF Cardinality(r.paths) <= SummaryMax THEN 0
                           ELSE Cardinality(r.paths) - SummaryMax]
      [] a = "get_file_info" ->
             [NoSummary EXCEPT !.kind = IF r.entries[1].is_dir THEN "is a folder"
                                        ELSE "is a file",
                  !.names = <<r.entries[1].name>>,
                  !.count = r.entries[1].size]
      [] a = "read_file" ->
             [NoSummary EXCEPT !.kind = "Read file successfully. First 200 chars: ",
                  !.text = Take(r.text, PreviewLen),
                  !.ellipsis = Len(r.text) > PreviewLen]
      [] OTHER -> [NoSummary EXCEPT !.kind = r.verb, !.body = r]

\* The classes "except Exception" catches: every error the operations and
\* the argument binding raise derives from Exception.
ExceptionClasses ==
    {"ValueError", "TypeError", "FileNotFoundError", "FileExistsError",
     "NotADirectoryError", "IsADirectoryError", "OSError", "Error", "SameFileError"}

\* Variant: "except OSError as e".
CaughtOSError(err) ==
    err \in {"FileNotFoundError", "FileExistsError", "NotADirectoryError",
             "IsADirectoryError", "OSError", "Error", "SameFileError"}

\* except Exception as e
Caught(err) == err \in ExceptionClasses

\* The error of a failed call as nl_command lets it out: the string
\* "Execution error: ..." when the except clause catches it.
ExecutionError(r) ==
    IF Caught(r.err)
    THEN [NoSummary EXCEPT !.kind = "Execution error: ", !.body = r]
    ELSE [NoSummary EXCEPT !.raised = TRUE, !.body = r]

\* The call has been made: its error goes to the except clause, its result
\* to summarize.
Answer(action, args, out) ==
    IF ~out.res.ok
    THEN [fs |-> out.fs, res |-> out.res, called |-> TRUE,
          summary |-> ExecutionError(out.res)]
    ELSE [fs |-> out.fs, res |-> out.res, called |-> TRUE,
          summary |-> summarize(action, args.map, out.res)]

\* Variant: the last branch raises ValueError inside the try.
UnsupportedActionRaises(f) ==
    [fs |-> f, res |-> Fail("ValueError", <<>>), called |-> FALSE,
     summary |-> ExecutionError(Fail("ValueError", <<>>))]

\* else: return f"Unsupported action: {action}"
UnsupportedAction(f) ==
    [fs |-> f, res |-> NoRes, called |-> FALSE,
     summary |-> [NoSummary EXCEPT !.kind = "Unsupported action: "]]

\* The chain of comparisons on the action name: a name outside it returns
\* "Unsupported action" without a call; a call that cannot bind its arguments
\* raises TypeError inside the try.
Chain(f, action, args) ==
    IF action \notin ActionNames
    THEN UnsupportedAction(f)
    ELSE IF BindFails(action, args)
    THEN [fs |-> f, res |-> Fail("TypeError", <<>>), called |-> FALSE,
          summary |-> ExecutionError(Fail("TypeError", <<>>))]
    ELSE Answer(action, args, Invoke(f, action, args.map))

\* nl_command from "action = cmd.get(...)" on; args = cmd.get("args") or {}.
Dispatch(f, cmd) ==
    Chain(f, cmd.action, IF cmd.args.kind = "falsy" THEN Mapping(<<>>) ELSE cmd.args)

\* ---------------------------------------------------------------- requests
\* The paths _resolve_safe is tried on: inside Root ("." is the empty
\* relative path), with "." and ".." segments, through the name l (a symbolic
\* link in some initial states), below a regular file, out of Root to the
\* sibling r2, to the unrelated o and to "/", and absolute.
ResolvePaths ==
    {UP(FALSE, segs) : segs \in
        {<<>>, <<"a">>, <<"d">>, <<"l">>, <<"d", "a">>, <<"d", "d">>, <<"d", "l">>,
         <<"l", "a">>, <<"l", "..">>, <<"a", "a">>, <<".", "a">>, <<"d", "..">>,
         <<"d", "..", "..">>, <<"..">>, <<"..", "r">>, <<"..", "r", "a">>, <<"..", "r2">>,
         <<"..", "r2", "a">>, <<"..", "o">>, <<"..", "o", "a">>}}
    \cup {UP(TRUE, segs) : segs \in
        {<<>>, <<"r">>, <<"r", "a">>, <<"r", "..", "r2">>, <<"r2">>, <<"r2", "a">>,
         <<"o", "a">>}}

\* The paths the operations are called with.
OpPaths ==
    {UP(FALSE, segs) : segs \in
        {<<>>, <<"a">>, <<"d">>, <<"l">>, <<"d", "a">>, <<"d", "d">>, <<"d", "l">>,
         <<"l", "a">>, <<"a", "a">>, <<"..", "r2">>, <<"..", "r2", "a">>,
         <<"..", "o", "a">>}}
    \cup {UP(TRUE, segs) : segs \in {<<"r", "a">>, <<"r2", "a">>}}

\* The sources and destinations copy_file and move_file are called with.
SrcPaths ==
    {UP(FALSE, segs) : segs \in
        {<<>>, <<"a">>, <<"d">>, <<"d", "a">>, <<"d", "l">>, <<"..", "r2", "a">>}}

DstPaths ==
    {UP(FALSE, segs) : segs \in
        {<<>>, <<"a">>, <<"d">>, <<"d", "a">>, <<"d", "d">>, <<"l", "a">>,
         <<"..", "r2">>, <<"..", "o", "a">>}}

\* The contents write_file is called with: empty, one-byte and two-byte characters.
WriteContents == {<<>>, <<"x">>, <<"é", "x">>}

\* name_contains and text of the two searches
Needles == {<<>>, <<"a">>, <<"A">>}
Texts == {<<>>, <<"x">>, <<"s">>}

\* The argument mappings descriptors carry: the shapes of the ten schemas,
\* a path out of Root, a number where a path belongs, and the parameter
\* names of another vocabulary (directory, pattern).
DescMaps ==
    {("path" :> StrPath(UP(FALSE, <<"a">>))),
     ("path" :> StrPath(UP(FALSE, <<"..", "o", "a">>))),
     ("path" :> IntVal),
     ("path" :> StrPath(UP(FALSE, <<"d", "d">>))) @@ ("content" :> StrText(<<"x">>)),
     ("path" :> StrPath(UP(FALSE, <<"d">>))) @@ ("recursive" :> BoolVal(TRUE)),
     ("path" :> StrPath(UP(FALSE, <<"d">>))) @@ ("exist_ok" :> BoolVal(FALSE)),
     ("path" :> StrPath(UP(FALSE, <<>>))) @@ ("name_contains" :> StrText(<<"a">>)),
     ("path" :> StrPath(UP(FALSE, <<>>))) @@ ("text" :> StrText(<<"x">>)),
     ("src" :> StrPath(UP(FALSE, <<"a">>))) @@ ("dst" :> StrPath(UP(FALSE, <<"d">>))),
     ("src" :> StrPath(UP(FALSE, <<"a">>))) @@ ("dst" :> StrPath(UP(FALSE, <<"a">>)))
         @@ ("overwrite" :> BoolVal(FALSE)),
     ("directory" :> StrPath(UP(FALSE, <<>>))) @@ ("pattern" :> StrText(<<"a">>))}

\* The descriptors nl_command's dispatch is given: every catalog name, a
\* name outside the catalog and no name, with every argument value.
Descriptors ==
    [action : ActionNames \cup {"format_disk", "null"},
     args : {Mapping(m) : m \in DescMaps} \cup {FalsyArgs, ListArgs}]

NoPath == UP(FALSE, <<>>)
NoCmd == [action |-> "null", args |-> FalsyArgs]

\* What the planner answered: raised, or a text holding (or not) an object.
NoPlan == [raises |-> FALSE, text |-> <<>>, obj |-> NoCmd]

\* No request is being answered.
NoLast ==
    [op |-> "none", a1 |-> NoPath, a2 |-> NoPath, flag |-> FALSE, text |-> <<>>,
     res |-> NoRes, pre |-> <<>>, cmd |-> NoCmd, called |-> FALSE,
     summary |-> NoSummary, plan |-> NoPlan]

\* ChatApp(): self.mcp_client = None, self.llm_handler = None, self.connected = False
NoApp == [connected |-> FALSE, llm_handler |-> FALSE]

\* No write_file calls run side by side.
NoCalls == <<>>

\* ---------------------------------------------------------------- initial filesystems
\* Outside Root: the sibling /r2, whose name starts with Root's name, and
\* the unrelated directory /o, each holding one file.
OutsideInit ==
    (<<>> :> DirNode) @@ (<<"r2">> :> DirNode) @@ (<<"r2", "a">> :> FileNode(<<"s">>))
    @@ (<<"o">> :> DirNode) @@ (<<"o", "a">> :> FileNode(<<"s">>))

\* Inside Root: a file a, a directory d that is empty or holds one file (a
\* or l), and possibly a symbolic link l to the outside file or directory.
InsideInit(dHolds, linkTo) ==
    (Root :> DirNode) @@ (<<"r", "a">> :> FileNode(<<"x">>)) @@ (<<"r", "d">> :> DirNode)
    @@ (IF dHolds # "" THEN (<<"r", "d", dHolds>> :> FileNode(<<"é">>)) ELSE <<>>)
    @@ (IF linkTo # <<>> THEN (<<"r", "l">> :> LinkNode(linkTo)) ELSE <<>>)

LinkTargets == {<<>>, <<"o", "a">>, <<"o">>}

InitFS == {InsideInit(dHolds, linkTo) @@ OutsideInit :
               dHolds \in {"", "a", "l"}, linkTo \in LinkTargets}

Init ==
    /\ fs \in InitFS
    /\ pc = "idle"
    /\ last = NoLast
    /\ prev = NoLast
    /\ steps = 0
    /\ app = NoApp
    /\ inflight = NoCalls

\* ---------------------------------------------------------------- actions
\* One request: the operation runs to completion on the filesystem and its
\* result is handed to the transport.
Handle(op, a1, a2, flag, text, out) ==
    /\ pc = "idle"
    /\ steps < MaxSteps
    /\ fs' = out.fs
    /\ last' = [NoLast EXCEPT !.op = op, !.a1 = a1, !.a2 = a2, !.flag = flag,
                              !.text = text, !.res = out.res, !.pre = fs]
    /\ pc' = "responded"
    /\ steps' = steps + 1
    /\ UNCHANGED <<prev, app, inflight>>

\* _resolve_safe alone, on any of the paths.
Resolve ==
    \E p \in ResolvePaths :
        LET r == _resolve_safe(fs, p)
        IN  Handle("resolve", p, NoPath, FALSE, <<>>,
                   Out(fs, IF r.ok THEN Msg("", r.path) ELSE Fail("ValueError", r.path)))

ListDirectory ==
    \E p \in OpPaths : Handle("list_directory", p, NoPath, FALSE, <<>>, list_directory(fs, p))

ReadFile ==
    \E p \in OpPaths : Handle("read_file", p, NoPath, FALSE, <<>>, read_file(fs, p))

WriteFile ==
    \E p \in OpPaths, c \in WriteContents :
        Handle("write_file", p, NoPath, FALSE, c, write_file(fs, p, c))

SearchFiles ==
    \E p \in OpPaths, n \in Needles :
        Handle("search_files", p, NoPath, FALSE, n, search_files(fs, p, n))

SearchInFiles ==
    \E p \in OpPaths, t \in Texts :
        Handle("search_in_files", p, NoPath, FALSE, t, search_in_files(fs, p, t))

GetFileInfo ==
    \E p \in OpPaths : Handle("get_file_info", p, NoPath, FALSE, <<>>, get_file_info(fs, p))

CreateDirectory ==
    \E p \in OpPaths, exist_ok \in BOOLEAN :
        Handle("create_directory", p, NoPath, exist_ok, <<>>, create_directory(fs, p, exist_ok))

DeleteFile ==
    \E p \in OpPaths, recursive \in BOOLEAN :
        Handle("delete_file", p, NoPath, recursive, <<>>, delete_file(fs, p, recursive))

CopyFile ==
    \E s \in SrcPaths, d \in DstPaths, overwrite \in BOOLEAN :
        Handle("copy_file", s, d, overwrite, <<>>, copy_file(fs, s, d, overwrite))

MoveFile ==
    \E s \in SrcPaths, d \in DstPaths, overwrite \in BOOLEAN :
        Handle("move_file", s, d, overwrite, <<>>, move_file(fs, s, d, overwrite))

\* One nl_command request whose planner output parsed to cmd.
HandleCmd(cmd, out) ==
    /\ pc = "idle"
    /\ steps < MaxSteps
    /\ fs' = out.fs
    /\ last' = [NoLast EXCEPT !.op = "nl_command", !.cmd = cmd, !.res = out.res,
                              !.pre = fs, !.called = out.called,
                              !.summary = out.summary]
    /\ pc' = "responded"
    /\ steps' = steps + 1
    /\ UNCHANGED <<prev, app, inflight>>

\* The dispatching part of nl_command, given the descriptor parsed from the
\* planner's output.
NlCommand == \E cmd \in Descriptors : HandleCmd(cmd, Dispatch(fs, cmd))

\* The result has been delivered; results are not kept between requests.
Return ==
    /\ pc = "responded"
    /\ pc' = "idle"
    /\ last' = NoLast
    /\ UNCHANGED <<fs, prev, steps, app, inflight>>

Next ==
    \/ Resolve
    \/ ListDirectory
    \/ ReadFile
    \/ WriteFile
    \/ SearchFiles
    \/ SearchInFiles
    \/ GetFileInfo
    \/ CreateDirectory
    \/ DeleteFile
    \/ CopyFile
    \/ MoveFile
    \/ NlCommand
    \/ Return

Spec == Init /\ [][Next]_vars

\* ---------------------------------------------------------------- write_file after write_file
\* The paths of the write_file sequences: a new file, a new file below new
\* directories, existing files, a directory, and the sibling's file.
WritePaths ==
    {UP(FALSE, segs) : segs \in
        {<<"a">>, <<"d", "a">>, <<"d", "d">>, <<"l", "a">>, <<"d">>, <<"..", "r2", "a">>}}

\* A write_file request, while fewer than MaxWrites were made.
WriteAgain ==
    /\ pc = "idle"
    /\ steps < MaxWrites
    /\ \E p \in WritePaths, c \in WriteContents :
           LET out == write_file(fs, p, c)
           IN  /\ fs' = out.fs
               /\ last' = [NoLast EXCEPT !.op = "write_file", !.a1 = p, !.text = c,
                                         !.res = out.res, !.pre = fs]
    /\ pc' = "responded"
    /\ steps' = steps + 1
    /\ UNCHANGED <<prev, app, inflight>>

\* The result has been delivered; the caller remembers the request it made.
ReturnKeep ==
    /\ pc = "responded"
    /\ pc' = "idle"
    /\ prev' = last
    /\ last' = NoLast
    /\ UNCHANGED <<fs, steps, app, inflight>>

NextWrite == WriteAgain \/ ReturnKeep

SpecWrite == Init /\ [][NextWrite]_vars

\* ---------------------------------------------------------------- properties
\* The canonical targets of the request just handled, in the filesystem it
\* was made in.
Target1 == ResolveTarget(last.pre, last.a1)
Target2 == ResolveTarget(last.pre, last.a2)

\* Everything that is not Root or below it.
Outside(f) == [q \in {x \in DOMAIN f : ~InsideRoot(x)} |-> f[q]]

ReadOps == {"list_directory", "read_file", "search_files", "search_in_files", "get_file_info"}

\* C1: _resolve_safe succeeds exactly when the canonical target is Root or a
\* descendant of Root, and raises the path-escape error for every other
\* target, a sibling of Root included whatever its name.
C1_ResolveConfined ==
    last.op = "resolve" => (last.res.ok <=> InsideRoot(last.res.path))

\* C2: after any sequence of write_file, create_directory, delete_file,
\* copy_file and move_file calls, everything outside Root is as it was
\* initially.
C2_OutsideUnchanged == Outside(fs) = OutsideInit

\* C3: no read-type operation returns content, a path or metadata of an
\* object located outside Root, also when a symbolic link inside Root points
\* outside.
C3_ReadsInside ==
    last.op \in ReadOps => \A p \in last.res.reads : InsideRoot(p)

\* The bytes of a content, counted character by character.
BytesOf(c) ==
    Cardinality({i \in 1..Len(c) : c[i] = "x"}) + 2 * Cardinality({i \in 1..Len(c) : c[i] = "é"})

C5_DeleteMissing ==
    (last.op = "delete_file" /\ InsideRoot(Target1) /\ Target1 \notin DOMAIN last.pre) =>
        /\ last.res.ok
        /\ last.res.verb = "Already gone"
        /\ fs = last.pre

\* delete_file with recursive=true on a missing path below a regular file.
C5_Witness ==
    /\ last.op = "delete_file" /\ last.flag
    /\ last.a1 = UP(FALSE, <<"a", "a">>)
    /\ Target1 \notin DOMAIN last.pre
    /\ last.res.verb = "Already gone"

\* C6: delete_file on a non-empty directory with recursive=false fails and
\* removes nothing; with recursive=true it removes the directory and every
\* descendant and nothing else; on an empty directory with recursive=false
\* it removes just that directory.
C6_DeleteDirectory ==
    (last.op = "delete_file" /\ InsideRoot(Target1) /\ Target1 \in DOMAIN last.pre
         /\ last.pre[Target1].kind = "dir") =>
        LET t == Target1
            below == {q \in DOMAIN last.pre : IsPrefix(t, q) /\ q # t}
        IN  /\ (~last.flag /\ below # {}) => (~last.res.ok /\ fs = last.pre)
            /\ last.flag =>
                   /\ last.res.ok
                   /\ DOMAIN fs = DOMAIN last.pre \ (below \cup {t})
                   /\ \A q \in DOMAIN fs : fs[q] = last.pre[q]
            /\ (~last.flag /\ below = {}) =>
                   /\ last.res.ok
                   /\ DOMAIN fs = DOMAIN last.pre \ {t}
                   /\ \A q \in DOMAIN fs : fs[q] = last.pre[q]

\* delete_file with recursive=true on the directory d holding a file.
C6_Witness ==
    /\ last.op = "delete_file" /\ last.flag /\ last.res.ok
    /\ Target1 = <<"r", "d">>
    /\ <<"r", "d", "a">> \in DOMAIN last.pre
    /\ <<"r", "d">> \notin DOMAIN fs /\ <<"r", "d", "a">> \notin DOMAIN fs
    /\ <<"r", "a">> \in DOMAIN fs

\* C7: after a successful copy_file(a, b), read_file(b) returns what
\* read_file(a) returns, and a still exists with its content unchanged.
C7_CopyRoundTrip ==
    (last.op = "copy_file" /\ last.res.ok /\ InsideRoot(Target1) /\ InsideRoot(Target2)) =>
        /\ read_file(fs, last.a2).res.ok
        /\ read_file(fs, last.a2).res.text = read_file(last.pre, last.a1).res.text
        /\ Target1 \in DOMAIN fs
        /\ fs[Target1] = last.pre[Target1]

\* C8: after a successful move_file(src, dst) onto another path, src no longer exists
\* and the path dst itself holds what src held (the file, or the directory
\* with its subtree), all parents of dst being directories.
C8_MoveHolds ==
    (last.op = "move_file" /\ last.res.ok /\ InsideRoot(Target1) /\ InsideRoot(Target2)
         /\ Target1 # Target2) =>
        /\ Target1 \notin DOMAIN fs
        /\ Target2 \in DOMAIN fs
        /\ TreeAt(fs, Target2) = TreeAt(last.pre, Target1)
        /\ \A a \in Ancestors(Target2) \ {Target2} : a \in DOMAIN fs /\ fs[a].kind = "dir"

\* The source of the request is one the operation accepts: a regular file
\* for copy_file, anything that exists for move_file.
SourceValid ==
    IF last.op = "copy_file" THEN IsFile(last.pre, Target1) ELSE Exists(last.pre, Target1)

C10_DispatchNeverRaises ==
    last.op = "nl_command" =>
        /\ ~last.summary.raised
        /\ last.summary.kind # ""
        /\ ~last.res.ok => last.summary.kind = "Execution error: "

\* A descriptor whose path leaves Root: the path-escape error comes back as
\* an "Execution error: " string.
C10_Witness ==
    /\ last.op = "nl_command"
    /\ last.cmd.action = "read_file"
    /\ last.called
    /\ last.res.err = "ValueError"
    /\ last.summary.kind = "Execution error: "
    /\ ~last.summary.raised

\* The ten operations of the catalog.
Catalog ==
    {"list_directory", "read_file", "write_file", "search_files", "search_in_files",
     "get_file_info", "create_directory", "delete_file", "copy_file", "move_file"}

\* C11: a descriptor whose action name is not one of the ten catalog
\* operations returns the "Unsupported action" string, raises nothing,
\* invokes no operation and leaves the filesystem unchanged, whatever its
\* arguments are.
C11_UnsupportedAction ==
    (last.op = "nl_command" /\ last.cmd.action \notin Catalog) =>
        /\ last.summary.kind = "Unsupported action: "
        /\ ~last.summary.raised
        /\ ~last.called
        /\ last.res = NoRes
        /\ fs = last.pre

\* A descriptor named format_disk carrying the arguments of a write.
C11_Witness ==
    /\ last.op = "nl_command"
    /\ last.cmd.action = "format_disk"
    /\ last.cmd.args.kind = "mapping"
    /\ DOMAIN last.cmd.args.map = {"path", "content"}
    /\ last.summary.kind = "Unsupported action: "
    /\ fs = last.pre

\* The argument mapping the dispatch binds: {} for a falsy args value.
BoundMap == IF last.cmd.args.kind = "falsy" THEN <<>> ELSE last.cmd.args.map

MaxChildren == 12

\* The names the children of the listed directory are taken from.
ChildNames == <<"k", "B", "m", "c", "Z", "e", "n", "f", "g", "h", "i", "j", "b", "p">>

\* The directory d holding the children numbered in S, files and
\* directories alternating.
Listed(S) ==
    (Root :> DirNode) @@ (<<"r", "d">> :> DirNode)
    @@ [q \in {<<"r", "d", ChildNames[i]>> : i \in S} |->
            IF \E i \in S : q[3] = ChildNames[i] /\ i % 2 = 0 THEN DirNode
            ELSE FileNode(<<"x">>)]
    @@ OutsideInit

InitList ==
    /\ fs \in {Listed(S) : S \in SUBSET (1..MaxChildren)}
    /\ pc = "idle"
    /\ last = NoLast
    /\ prev = NoLast
    /\ steps = 0
    /\ app = NoApp
    /\ inflight = NoCalls

\* The list_directory descriptors: the directory d, Root by ".", no args.
ListDescriptors ==
    [action : {"list_directory"},
     args : {Mapping("path" :> StrPath(UP(FALSE, <<"d">>))),
             Mapping("path" :> StrPath(UP(FALSE, <<>>))), FalsyArgs}]

\* nl_command dispatching a list_directory descriptor.
ListSummary == \E cmd \in ListDescriptors : HandleCmd(cmd, Dispatch(fs, cmd))

NextList == ListSummary \/ Return

SpecList == InitList /\ [][NextList]_vars

\* The children of the directory listed by the request just handled.
ListedKids ==
    LET t == ResolveTarget(last.pre, Get(BoundMap, "path", StrPath(NoPath)).up)
    IN  {q \in DOMAIN last.pre : Len(q) = Len(t) + 1 /\ SubSeq(q, 1, Len(t)) = t}

\* name1 sorts before name2
NameBefore(name1, name2) == SeqLess(Chars(name1), Chars(name2))

\* C13: the list_directory summary for a directory with n children reports
\* the count n and the requested path, lists exactly the first min(n, 10)
\* names in sorted order, and ends with "(and n-10 more)" exactly when
\* n > 10.
C13_ListSummary ==
    (last.op = "nl_command" /\ last.cmd.action = "list_directory" /\ last.res.ok) =>
        LET n == Cardinality(ListedKids)
            names == last.summary.names
            shown == {names[i] : i \in 1..Len(names)}
        IN  /\ last.summary.kind = "Found items in"
            /\ last.summary.count = n
            /\ last.summary.echo = Get(BoundMap, "path", StrPath(NoPath))
            /\ Len(names) = (IF n < 10 THEN n ELSE 10)
            /\ \A i \in 1..Len(names) : \A j \in 1..Len(names) :
                   i < j => NameBefore(names[i], names[j])
            /\ \A x \in shown : \E q \in ListedKids : BaseName(q) = x
            /\ \A q \in ListedKids :
                   BaseName(q) \notin shown => \A x \in shown : NameBefore(x, BaseName(q))
            /\ last.summary.more = (IF n > 10 THEN n - 10 ELSE 0)

\* Twelve children: ten names are shown, upper case first, and two more
\* are counted.
C13_Witness ==
    /\ last.op = "nl_command" /\ last.cmd.action = "list_directory" /\ last.res.ok
    /\ Cardinality(ListedKids) = 12
    /\ last.summary.count = 12
    /\ Len(last.summary.names) = 10
    /\ last.summary.names[1] = "B" /\ last.summary.names[2] = "Z"
    /\ last.summary.names[10] = "k"
    /\ last.summary.more = 2

\* Two characters that are equal up to case.
SameIgnoringCase(c1, c2) ==
    \/ c1 = c2
    \/ {c1, c2} \in {{"A", "a"}, {"B", "b"}, {"X", "x"}, {"Z", "z"}}

\* The base name of p contains the substring, compared case-insensitively.
NameHas(p, substring) ==
    LET name == Chars(BaseName(p))
    IN  \E i \in 0..(Len(name) - Len(substring)) :
            \A j \in 1..Len(substring) : SameIgnoringCase(name[i + j], substring[j])

\* p leads to a regular file (itself, or through a symbolic link).
LeadsToFile(f, p) == RealPath(f, p) \in DOMAIN f /\ f[RealPath(f, p)].kind = "file"

Prefixes(p) == {SubSeq(p, 1, k) : k \in 0..Len(p)}

\* C15: create_directory creates the directory and all its missing parents;
\* with exist_ok=false on a path that exists it fails and leaves the tree
\* unchanged; with exist_ok=true on an existing directory it succeeds and
\* leaves the tree unchanged, so that repeating the call is idempotent.
C15_CreateDirectory ==
    (last.op = "create_directory" /\ InsideRoot(Target1)) =>
        LET t == Target1
            missing == Prefixes(t) \ DOMAIN last.pre
        IN  /\ (t \notin DOMAIN last.pre
                /\ \A a \in Prefixes(t) \cap DOMAIN last.pre : last.pre[a].kind = "dir") =>
                   /\ last.res.ok
                   /\ DOMAIN fs = DOMAIN last.pre \cup missing
                   /\ \A q \in missing : fs[q] = DirNode
                   /\ \A q \in DOMAIN last.pre : fs[q] = last.pre[q]
                   /\ create_directory(fs, last.a1, TRUE) = Out(fs, last.res)
            /\ (t \in DOMAIN last.pre /\ ~last.flag) =>
                   ~last.res.ok /\ last.res.err = "FileExistsError" /\ fs = last.pre
            /\ (t \in DOMAIN last.pre /\ last.pre[t].kind = "dir" /\ last.flag) =>
                   /\ last.res.ok
                   /\ fs = last.pre
                   /\ create_directory(fs, last.a1, TRUE) = Out(fs, last.res)

\* create_directory("l/a") where neither l nor l/a exists: both are made.
C15_Witness ==
    /\ last.op = "create_directory" /\ last.res.ok
    /\ Target1 = <<"r", "l", "a">>
    /\ <<"r", "l">> \notin DOMAIN last.pre
    /\ <<"r", "l">> \in DOMAIN fs /\ fs[<<"r", "l">>] = DirNode
    /\ <<"r", "l", "a">> \in DOMAIN fs /\ fs[<<"r", "l", "a">>] = DirNode

\* ---------------------------------------------------------------- chat front end
\* self.available_tools
available_tools ==
    {"list_directory", "read_file", "write_file", "create_directory", "delete_file",
     "search_files", "search_in_files", "get_file_info", "copy_file", "move_file"}

\* text.find(ch): the first position of ch counted from 0, -1 when absent
Find(text, ch) ==
    IF \E i \in 1..Len(text) : text[i] = ch
    THEN (CHOOSE i \in 1..Len(text) : text[i] = ch /\ \A j \in 1..(i - 1) : text[j] # ch) - 1
    ELSE -1

\* text.rfind(ch): the last position of ch counted from 0, -1 when absent
RFind(text, ch) ==
    IF \E i \in 1..Len(text) : text[i] = ch
    THEN (CHOOSE i \in 1..Len(text) : text[i] = ch /\ \A j \in (i + 1)..Len(text) : text[j] # ch) - 1
    ELSE -1

\* text[a:b] for 0 <= a, 0 <= b
Slice(text, a, b) == SubSeq(text, a + 1, b)

\* json.loads(json_str) returns: the text is one object, "{" "}" standing
\* for its braces with the members between them; anything else ("w" is any
\* other text) raises JSONDecodeError.
Parses(json_str) == json_str = <<"{", "}">>

\* What process_query returns: (tool_name, arguments, explanation).
QueryError(explanation) ==
    [tool |-> "error", arguments |-> Mapping(<<>>), explanation |-> explanation]

\* Variant: any name passes.
ToolUnchecked(tool_name) == TRUE

\* if tool_name not in self.available_tools
ToolChecked(tool_name) == tool_name \in available_tools

\* The object parsed from the planner's text: its tool name is checked.
Validated(obj) ==
    IF ~ToolChecked(obj.action) THEN QueryError("Invalid tool")
    ELSE [tool |-> obj.action, arguments |-> obj.args, explanation |-> "explanation"]

\* The text from the first "{" to the last "}".
Extracted(text, start_idx, end_idx, obj) ==
    IF start_idx # -1 /\ end_idx # -1
    THEN IF Parses(Slice(text, start_idx, end_idx)) THEN Validated(obj)
         ELSE QueryError("Failed to parse JSON response")
    ELSE QueryError("Could not find JSON response in LLM output")

\* GeminiLLMHandler.process_query, given what the planner answered.
process_query(plan) ==
    IF plan.raises THEN QueryError("Error processing query with Gemini")
    ELSE Extracted(plan.text, Find(plan.text, "{"), RFind(plan.text, "}") + 1, plan.obj)

\* The arguments as a mapping: none for null or {}.
ArgMap(args) == IF args.kind = "mapping" THEN args.map ELSE <<>>

\* m without the names the tool does not have.
KnownArgs(tool_name, m) == [k \in DOMAIN m \cap Params(tool_name) |-> m[k]]

\* session.call_tool(tool_name, arguments): the server binds the arguments
\* to the tool's signature and runs the tool.  Arguments that are no mapping
\* or lack a required parameter never reach the tool; names the tool does
\* not have are either rejected or dropped by the binding, which is not
\* this program's to decide.
ServerCalls(f, tool_name, args) ==
    IF tool_name \notin ActionNames THEN {Out(f, Fail("Unknown tool", <<>>))}
    ELSE IF args.kind = "other" \/ ~(Required(tool_name) \subseteq DOMAIN ArgMap(args))
    THEN {Out(f, Fail("TypeError", <<>>))}
    ELSE IF DOMAIN ArgMap(args) \subseteq Params(tool_name)
    THEN {Invoke(f, tool_name, ArgMap(args))}
    ELSE {Invoke(f, tool_name, KnownArgs(tool_name, ArgMap(args))),
          Out(f, Fail("TypeError", <<>>))}

\* The texts the planner answers with, up to three pieces long.
PlanTexts ==
    {<<>>} \cup [1..1 -> {"{", "}", "w"}] \cup [1..2 -> {"{", "}", "w"}]
    \cup [1..3 -> {"{", "}", "w"}]

\* The text holds an object.
HoldsObject(text) == \E i \in 1..(Len(text) - 1) : text[i] = "{" /\ text[i + 1] = "}"

\* The objects the planner's text holds: a tool of the catalog, another
\* name, the name "error", no name; arguments of some shapes.
PlanObjects ==
    [action : available_tools \cup {"format_disk", "error", ""},
     args : {Mapping("path" :> StrPath(UP(FALSE, <<"d">>))),
             Mapping(("path" :> StrPath(UP(FALSE, <<"d", "d">>)))
                     @@ ("content" :> StrText(<<"x">>))),
             FalsyArgs}]

\* What the planner answers: llm.invoke raises, or a text.
Plans ==
    {[NoPlan EXCEPT !.raises = TRUE]}
    \cup {[NoPlan EXCEPT !.text = t] : t \in {x \in PlanTexts : ~HoldsObject(x)}}
    \cup {[NoPlan EXCEPT !.text = t, !.obj = o] :
              t \in {x \in PlanTexts : HoldsObject(x)}, o \in PlanObjects}

\* ChatApp.initialize: the client, then the handler; either constructor may raise.
Initialize ==
    /\ pc = "idle"
    /\ ~app.connected \/ ~app.llm_handler
    /\ \E client_ok \in BOOLEAN, llm_ok \in BOOLEAN :
           app' = IF ~client_ok THEN app
                  ELSE [connected |-> TRUE, llm_handler |-> app.llm_handler \/ llm_ok]
    /\ UNCHANGED <<fs, pc, last, prev, steps, inflight>>

\* process_user_message has answered: what the planner said, what
\* process_query made of it, whether call_tool was called and what the
\* server did, and the response: the explanation of an error (which the
\* response shows after a cross mark), or "Result".
Answered(plan, q, called, out, kind) ==
    /\ fs' = out.fs
    /\ last' = [NoLast EXCEPT !.op = "chat", !.plan = plan,
                              !.cmd = [action |-> q.tool, args |-> q.arguments],
                              !.called = called, !.res = out.res, !.pre = fs,
                              !.summary = [NoSummary EXCEPT !.kind = kind]]
    /\ pc' = "responded"
    /\ steps' = steps + 1
    /\ UNCHANGED <<prev, app, inflight>>

\* process_user_message after process_query returned q.
Processed(plan, q) ==
    IF q.tool = "error"
    THEN Answered(plan, q, FALSE, Out(fs, NoRes), q.explanation)
    ELSE \E out \in ServerCalls(fs, q.tool, q.arguments) :
             Answered(plan, q, TRUE, out, "Result")

\* ChatApp.process_user_message
ChatMessage ==
    /\ pc = "idle"
    /\ steps < MaxSteps
    /\ IF ~app.connected \/ ~app.llm_handler
       THEN Answered(NoPlan, QueryError(""), FALSE, Out(fs, NoRes),
                     "System not initialized. Please refresh the page.")
       ELSE \E plan \in Plans : Processed(plan, process_query(plan))

\* ---------------------------------------------------------------- SimpleMCPClient
\* The argument mapping each convenience method passes to call_tool, given
\* the caller's values: a path, a second path, a text.
ClientArguments(method, p, q, t) ==
    CASE method \in {"list_directory", "read_file", "create_directory", "delete_file",
                     "get_file_info"} -> ("path" :> StrPath(p))
      [] method = "write_file" -> ("path" :> StrPath(p)) @@ ("content" :> StrText(t))
      [] method = "search_files" -> ("directory" :> StrPath(p)) @@ ("pattern" :> StrText(t))
      [] method = "search_in_files" -> ("directory" :> StrPath(p)) @@ ("query" :> StrText(t))
      [] method \in {"copy_file", "move_file"} ->
             ("source" :> StrPath(p)) @@ ("destination" :> StrPath(q))

\* The values the convenience methods are called with.
ClientPaths == {UP(FALSE, <<"a">>), UP(FALSE, <<"d">>)}
ClientSeconds == {UP(FALSE, <<"d", "d">>)}
ClientTexts == {<<"a">>}

\* call_tool has returned what the server answered to the method's request.
Called(method, p, q, t, arguments, out) ==
    /\ fs' = out.fs
    /\ last' = [NoLast EXCEPT !.op = "client", !.a1 = p, !.a2 = q, !.text = t,
                              !.cmd = [action |-> method, args |-> Mapping(arguments)],
                              !.called = TRUE, !.res = out.res, !.pre = fs]
    /\ pc' = "responded"
    /\ steps' = steps + 1
    /\ UNCHANGED <<prev, app, inflight>>

\* One convenience method of SimpleMCPClient.
ClientCall ==
    /\ pc = "idle"
    /\ steps < MaxSteps
    /\ \E method \in available_tools, p \in ClientPaths, q \in ClientSeconds, t \in ClientTexts :
           \E out \in ServerCalls(fs, method, Mapping(ClientArguments(method, p, q, t))) :
               Called(method, p, q, t, ClientArguments(method, p, q, t), out)

NextFront == Initialize \/ ChatMessage \/ ClientCall \/ Return

SpecFront == Init /\ [][NextFront]_vars

\* The planner's text holds no object that parses, or the object names a
\* tool outside the catalog.
PlanRejected ==
    \/ last.plan.raises
    \/ \A i \in 1..Len(last.plan.text) : last.plan.text[i] # "{"
    \/ \A i \in 1..Len(last.plan.text) : last.plan.text[i] # "}"
    \/ \E i \in 1..Len(last.plan.text) : \E j \in i..Len(last.plan.text) :
           /\ last.plan.text[i] = "{" /\ \A k \in 1..(i - 1) : last.plan.text[k] # "{"
           /\ last.plan.text[j] = "}" /\ \A k \in (j + 1)..Len(last.plan.text) : last.plan.text[k] # "}"
           /\ j # i + 1
    \/ \E i \in 1..Len(last.plan.text) : \E j \in 1..(i - 1) :
           /\ last.plan.text[i] = "{" /\ \A k \in 1..(i - 1) : last.plan.text[k] # "{"
           /\ last.plan.text[j] = "}" /\ \A k \in (j + 1)..Len(last.plan.text) : last.plan.text[k] # "}"
    \/ last.plan.obj.action \notin Catalog

\* C16: in the chat front end a tool call is sent only after the planner's
\* tool name has been checked against the catalog: when the planner's output
\* has no JSON object, is not parseable or names a tool outside the catalog,
\* process_query returns the tool "error" without raising, and
\* process_user_message returns an error text without calling call_tool.
C16_ChatChecksTool ==
    (last.op = "chat") =>
        /\ last.called => last.cmd.action \in Catalog /\ last.cmd.action = last.plan.obj.action
        /\ PlanRejected =>
               /\ last.cmd.action = "error"
               /\ ~last.called
               /\ last.summary.kind \in
                      {"Invalid tool", "Failed to parse JSON response",
                       "Could not find JSON response in LLM output",
                       "Error processing query with Gemini",
                       "System not initialized. Please refresh the page."}
               /\ fs = last.pre

\* The planner's text holds an object naming format_disk: no call is made.
C16_Witness ==
    /\ last.op = "chat"
    /\ app.connected /\ app.llm_handler
    /\ last.plan.text = <<"w", "{", "}">>
    /\ last.plan.obj.action = "format_disk"
    /\ last.cmd.action = "error"
    /\ ~last.called
    /\ last.summary.kind = "Invalid tool"

\* C17: every convenience method of SimpleMCPClient sends an argument
\* mapping whose keys are all parameters of the server operation of the
\* same name and which contains every required parameter of it.
C17_ClientKeys ==
    last.op = "client" =>
        /\ DOMAIN last.cmd.args.map \subseteq Params(last.cmd.action)
        /\ Required(last.cmd.action) \subseteq DOMAIN last.cmd.args.map

\* C18: any operation of the catalog that fails leaves the filesystem
\* exactly as it was before the call; a failed write_file, copy_file or
\* move_file leaves no newly created parent directories behind.
C18_FailureChangesNothing ==
    (last.op \in Catalog /\ ~last.res.ok) => fs = last.pre

\* C19: after any sequence of catalog operations the Root directory still
\* exists and is a directory: no delete_file or move_file call, one on "."
\* included, removes or relocates Root.
C19_RootStays == Root \in DOMAIN fs /\ fs[Root].kind = "dir"

\* ---------------------------------------------------------------- write_file side by side
\* Two write_file calls served at the same time (each client starts a
\* server process of its own on the same Root).
Calls == {1, 2}

\* The path both calls write to: an existing file, a new file in an
\* existing directory, a new file in a new directory.
RacePaths == {UP(FALSE, segs) : segs \in {<<"a">>, <<"d", "d">>, <<"l", "a">>}}

\* A call before its first step.
NewCall(p, c, f) ==
    [pc |-> "start", path |-> p, content |-> c, file_path |-> <<>>, mode |-> "",
     res |-> NoRes, pre |-> f]

InitRace ==
    /\ fs \in InitFS
    /\ pc = "idle"
    /\ last = NoLast
    /\ prev = NoLast
    /\ steps = 0
    /\ app = NoApp
    /\ \E p \in RacePaths, c1 \in WriteContents \ {<<>>}, c2 \in WriteContents \ {<<>>} :
           inflight = (1 :> NewCall(p, c1, fs)) @@ (2 :> NewCall(p, c2, fs))

\* A call's step: the filesystem and the call's record change.
Stepped(c, f, rec) ==
    /\ fs' = f
    /\ inflight' = [inflight EXCEPT ![c] = rec]
    /\ UNCHANGED <<pc, last, prev, steps, app>>

\* The call ends with an error.
Raised(c, f, err, p) ==
    Stepped(c, f, [inflight[c] EXCEPT !.pc = "done", !.res = Fail(err, p)])

\* After the parent directories are made: lines 79-80.
RaceChecked(c, file_path, mk) ==
    IF ~mk.ok THEN Raised(c, fs, mk.err, file_path)
    ELSE IF Exists(mk.fs, file_path) /\ ~IsFile(mk.fs, file_path)
    THEN Raised(c, mk.fs, "FileExistsError", file_path)
    ELSE Stepped(c, mk.fs, [inflight[c] EXCEPT !.pc = "checked", !.file_path = file_path])

\* After _resolve_safe: line 77.
RaceResolved(c, r) ==
    IF ~r.ok THEN Raised(c, fs, "ValueError", r.path)
    ELSE RaceChecked(c, r.path, Mkdirs(fs, Parent(r.path), TRUE))

\* write_file lines 76-80: resolve, make the parents, refuse a non-file.
RaceCheck(c) ==
    /\ inflight[c].pc = "start"
    /\ RaceResolved(c, _resolve_safe(fs, inflight[c].path))

\* write_file line 82: mode = "a" if file_path.exists() else "w"
RaceMode(c) ==
    /\ inflight[c].pc = "checked"
    /\ Stepped(c, fs, [inflight[c] EXCEPT !.pc = "decided",
                           !.mode = WriteMode(fs, inflight[c].file_path)])

\* write_file line 88: open(mode) creates a missing file; "w" empties an
\* existing one.
RaceOpen(c) ==
    /\ inflight[c].pc = "decided"
    /\ Stepped(c,
               IF inflight[c].mode = "w" \/ inflight[c].file_path \notin DOMAIN fs
               THEN [x \in {inflight[c].file_path} |-> FileNode(<<>>)] @@ fs
               ELSE fs,
               [inflight[c] EXCEPT !.pc = "opened"])

\* The file's content after data is written by a stream opened with mode:
\* "a" writes at the end of the file as it is now, "w" from position 0.
WrittenAt(old, mode, data) ==
    IF mode = "a" THEN old \o data
    ELSE data \o SubSeq(old, Len(data) + 1, Len(old))

\* write_file lines 89-96: the content is written when the stream closes,
\* and the confirmation returned.
RaceWrite(c) ==
    /\ inflight[c].pc = "opened"
    /\ Stepped(c,
               [fs EXCEPT ![inflight[c].file_path].content =
                              WrittenAt(@, inflight[c].mode, inflight[c].content)],
               [inflight[c] EXCEPT !.pc = "done",
                    !.res = [NoRes EXCEPT
                                 !.verb = IF inflight[c].mode = "a" THEN "Appended"
                                          ELSE "Created",
                                 !.path = inflight[c].file_path,
                                 !.chars = Len(inflight[c].content),
                                 !.bytes = EncodedLen(inflight[c].content)]])

NextRace == \E c \in Calls : RaceCheck(c) \/ RaceMode(c) \/ RaceOpen(c) \/ RaceWrite(c)

SpecRace == InitRace /\ [][NextRace]_vars

\* The content of the file both calls wrote to, before they started.
RaceBefore ==
    IF inflight[1].file_path \in DOMAIN inflight[1].pre
    THEN inflight[1].pre[inflight[1].file_path].content
    ELSE <<>>

\* C20: when two write_file calls on the same path run concurrently, their
\* exists-check and open/write steps interleaved, the file finally holds
\* the content of both calls in one of the two orders; no interleaving
\* loses the content of one call.
C20_BothWritesKept ==
    (/\ DOMAIN inflight = Calls
     /\ \A c \in Calls : inflight[c].pc = "done" /\ inflight[c].res.ok) =>
        fs[inflight[1].file_path].content \in
            {RaceBefore \o inflight[1].content \o inflight[2].content,
             RaceBefore \o inflight[2].content \o inflight[1].content}

\* ---------------------------------------------------------------- reads before a request
\* The paths of the read sequences: Root, a file, a directory, the name l
\* (a symbolic link in some initial states), below l, and the sibling's file.
ReadPaths ==
    {UP(FALSE, segs) : segs \in
        {<<>>, <<"a">>, <<"d">>, <<"l">>, <<"l", "a">>, <<"..", "r2", "a">>}}

\* The sources and destinations of a copy_file or move_file after the reads.
ReadSrcPaths == {UP(FALSE, segs) : segs \in {<<"a">>, <<"d">>, <<"d", "l">>}}
ReadDstPaths == {UP(FALSE, segs) : segs \in {<<"a">>, <<"d", "d">>, <<"l", "a">>}}

\* The filesystems the reads start in: the initial ones, and one where
\* FS_ROOT names a directory that does not exist.
ReadFS == InitFS \cup {OutsideInit}

InitRead ==
    /\ fs \in ReadFS
    /\ pc = "idle"
    /\ last = NoLast
    /\ prev = NoLast
    /\ steps = 0
    /\ app = NoApp
    /\ inflight = NoCalls

\* The operation has run to completion and its result is handed to the
\* transport.
Served(op, a1, a2, flag, text, out) ==
    /\ fs' = out.fs
    /\ last' = [NoLast EXCEPT !.op = op, !.a1 = a1, !.a2 = a2, !.flag = flag,
                              !.text = text, !.res = out.res, !.pre = fs]
    /\ pc' = "responded"
    /\ UNCHANGED <<prev, app, inflight>>

\* A call of one of the five read-type operations, while fewer than
\* MaxReads were made.
ReadRequest ==
    /\ pc = "idle"
    /\ steps < MaxReads
    /\ steps' = steps + 1
    /\ \E p \in ReadPaths :
           \/ Served("list_directory", p, NoPath, FALSE, <<>>, list_directory(fs, p))
           \/ Served("read_file", p, NoPath, FALSE, <<>>, read_file(fs, p))
           \/ \E n \in Needles :
                  Served("search_files", p, NoPath, FALSE, n, search_files(fs, p, n))
           \/ \E t \in Texts :
                  Served("search_in_files", p, NoPath, FALSE, t, search_in_files(fs, p, t))
           \/ Served("get_file_info", p, NoPath, FALSE, <<>>, get_file_info(fs, p))

\* A call of one of the five other operations after any number of reads;
\* it is the last call of the sequence.
OtherRequest ==
    /\ pc = "idle"
    /\ steps <= MaxReads
    /\ steps' = MaxReads + 1
    /\ \/ \E p \in ReadPaths, c \in WriteContents :
              Served("write_file", p, NoPath, FALSE, c, write_file(fs, p, c))
       \/ \E p \in ReadPaths, exist_ok \in BOOLEAN :
              Served("create_directory", p, NoPath, exist_ok, <<>>,
                     create_directory(fs, p, exist_ok))
       \/ \E p \in ReadPaths, recursive \in BOOLEAN :
              Served("delete_file", p, NoPath, recursive, <<>>, delete_file(fs, p, recursive))
       \/ \E s \in ReadSrcPaths, d \in ReadDstPaths, overwrite \in BOOLEAN :
              Served("copy_file", s, d, overwrite, <<>>, copy_file(fs, s, d, overwrite))
       \/ \E s \in ReadSrcPaths, d \in ReadDstPaths, overwrite \in BOOLEAN :
              Served("move_file", s, d, overwrite, <<>>, move_file(fs, s, d, overwrite))

NextRead == ReadRequest \/ OtherRequest \/ ReturnKeep

SpecRead == InitRead /\ [][NextRead]_vars

\* The call recorded in l, made on the filesystem f.
Recalled(f, l) ==
    CASE l.op = "list_directory" -> list_directory(f, l.a1)
      [] l.op = "read_file" -> read_file(f, l.a1)
      [] l.op = "search_files" -> search_files(f, l.a1, l.text)
      [] l.op = "search_in_files" -> search_in_files(f, l.a1, l.text)
      [] l.op = "get_file_info" -> get_file_info(f, l.a1)
      [] l.op = "write_file" -> write_file(f, l.a1, l.text)
      [] l.op = "create_directory" -> create_directory(f, l.a1, l.flag)
      [] l.op = "delete_file" -> delete_file(f, l.a1, l.flag)
      [] l.op = "copy_file" -> copy_file(f, l.a1, l.a2, l.flag)
      [] l.op = "move_file" -> move_file(f, l.a1, l.a2, l.flag)

\* C21: list_directory, read_file, search_files, search_in_files and
\* get_file_info leave the filesystem as it was, whether they succeed or
\* fail; so a call made after a read finds the filesystem the read found,
\* and its result and effect are those of the same call made without the
\* read before it.
C21_ReadsChangeNothing ==
    /\ last.op \in ReadOps => fs = last.pre
    /\ (prev.op \in ReadOps /\ last.op \in Catalog) =>
           /\ last.pre = prev.pre
           /\ last.res = Recalled(prev.pre, last).res
           /\ fs = Recalled(prev.pre, last).fs

\* A read that failed came before a delete_file that removed something.
C21_Witness ==
    /\ steps = MaxReads + 1
    /\ prev.op \in ReadOps
    /\ ~prev.res.ok
    /\ last.op = "delete_file"
    /\ last.res.ok
    /\ fs # last.pre

====
